---- MODULE Spec2Model ----
(***************************************************************************)
(* Scene timeline validation of AI_Video_Gen_App:                          *)
(* LLMService._validate_and_fix_scenes and the part of                     *)
(* LLMService.segment_script_and_generate_queries that calls it            *)
(* (src/src/services/llm_service.py).                                      *)
(*                                                                         *)
(* Times are integers in milliseconds (1 s = 1000).  round(x, 2) rounds to *)
(* a multiple of 10 ms.  Arithmetic is exact: the inputs drawn below avoid *)
(* values that end in 5 ms, where the float representation decides the     *)
(* rounding direction, and gaps or durations that sit exactly on 0.1 s,    *)
(* 0.5 s or 10 s after a float subtraction that is not exact.              *)
(* A text is a sequence of word tokens (" ".join is concatenation of the   *)
(* token sequences); a visual_query is a sequence of string parts          *)
(* (string + is concatenation of the part sequences); "" is <<>>.          *)
(***************************************************************************)
EXTENDS Integers, Sequences, FiniteSets, TLC

\* ------------------------------------------------------------------ bounds
MaxScenes == 2

\* --------------------------------------------------------------- constants
MAX_DURATION == 10000
MIN_DURATION == 500
FILLER_CHUNK_SIZE == 8000
GAP_TOLERANCE == 100
CENTI == 10

SPLIT_VARIATIONS ==
  << <<>>,
     <<", different angle">>,
     <<", close-up shot">>,
     <<", wide establishing shot">>,
     <<", dramatic lighting">>,
     <<", slow motion feel">>,
     <<", dynamic camera movement">>,
     <<", alternative perspective">> >>

DEFAULT_MEDIA_SOURCE == "pollinations"
ABSENT == "<absent>"

\* ----------------------------------------------------------------- helpers
Min(a, b) == IF a < b THEN a ELSE b
Max(a, b) == IF a > b THEN a ELSE b

\* round(x, 2): nearest multiple of 10 ms
Round2(t) == ((t + (CENTI \div 2)) \div CENTI) * CENTI

Range(s) == {s[k] : k \in 1..Len(s)}

\* float(scene.get(key, 0)): an absent key is 0, a value float() rejects raises
Coercible(kind) == kind # "bad"
Coerce(kind, val) == IF kind = "missing" THEN 0 ELSE val

\* scene.get('media_source', 'pollinations')
GetMediaSource(scene) ==
  IF scene.media_source = ABSENT THEN DEFAULT_MEDIA_SOURCE ELSE scene.media_source

\* sorted(word_subtitles, key=lambda x: x[1]): stable, ascending start
RECURSIVE InsertWord(_, _)
InsertWord(sorted, w) ==
  IF sorted = <<>> THEN <<w>>
  ELSE IF sorted[Len(sorted)].start <= w.start THEN Append(sorted, w)
  ELSE Append(InsertWord(SubSeq(sorted, 1, Len(sorted) - 1), w), sorted[Len(sorted)])

RECURSIVE SortWords(_)
SortWords(ws) ==
  IF ws = <<>> THEN <<>>
  ELSE InsertWord(SortWords(SubSeq(ws, 1, Len(ws) - 1)), ws[Len(ws)])

\* Variant of get_words_in_range: a word must also end inside the range
RECURSIVE get_words_in_range_EndInside(_, _, _)
get_words_in_range_EndInside(sw, start_t, end_t) ==
  IF sw = <<>> THEN <<>>
  ELSE (IF start_t <= sw[1].start /\ sw[1].end <= end_t THEN <<sw[1]>> ELSE <<>>)
       \o get_words_in_range_EndInside(Tail(sw), start_t, end_t)

\* get_words_in_range(start_t, end_t) over sorted_words
RECURSIVE get_words_in_range(_, _, _)
get_words_in_range(sw, start_t, end_t) ==
  IF sw = <<>> THEN <<>>
  ELSE (IF start_t <= sw[1].start /\ sw[1].start < end_t THEN <<sw[1]>> ELSE <<>>)
       \o get_words_in_range(Tail(sw), start_t, end_t)

\* get_text_for_range(start_t, end_t)
get_text_for_range(ws, start_t, end_t) ==
  LET words == get_words_in_range(SortWords(ws), start_t, end_t)
  IN [k \in 1..Len(words) |-> words[k].text]

\* ------------------------------------------------------ the passes' steps
Variation(part) == SPLIT_VARIATIONS[(part % Len(SPLIT_VARIATIONS)) + 1]

\* base_query + variation if base_query else f"Atmospheric scene{variation}"
VariedQuery(base_query, part) ==
  IF base_query # <<>> THEN base_query \o Variation(part)
  ELSE <<"Atmospheric scene">> \o Variation(part)

\* A scene dict as the engine builds it; id = 0 stands for "no 'id' key yet"
MkScene(st, en, text, vq, ms) ==
  [id |-> 0, start_time |-> st, end_time |-> en, text |-> text,
   visual_query |-> vq, media_source |-> ms]

\* Variants of the line-294 test: zero durations kept / short proposals dropped
Invalid_StrictlyNegative(duration) == duration < 0
Invalid_BelowMinimum(duration) == duration < MIN_DURATION

\* line 294: if duration <= 0: continue
Invalid(duration) == duration <= 0

\* lines 297 / 306 and 396 / 398: duration <= MAX_DURATION, else split
TooLong(duration) == duration > MAX_DURATION

\* Variant of the kept proposal: an empty text falls back to the visual query
KeepAsIs_QueryAsText(scene, start, end) ==
  MkScene(Round2(start), Round2(end),
          IF scene.text = <<>> THEN scene.visual_query ELSE scene.text,
          scene.visual_query, GetMediaSource(scene))

\* PASS 1, duration <= MAX_DURATION: the proposal is kept, rounded
KeepAsIs(scene, start, end) ==
  MkScene(Round2(start), Round2(end), scene.text, scene.visual_query,
          GetMediaSource(scene))

\* PASS 1, first part number of a split (part = 1 before the while loop)
Pass1FirstPart == 1

\* Variant of the PASS 1 chunk end: no test for a tiny last chunk
Pass1ChunkEnd_NoAbsorb(current_time, end) ==
  Min(current_time + FILLER_CHUNK_SIZE, end)

\* PASS 1: chunk_end of the chunk that begins at current_time
Pass1ChunkEnd(current_time, end) ==
  LET chunk_end == Min(current_time + FILLER_CHUNK_SIZE, end)
  IN IF (end - chunk_end) < MIN_DURATION /\ (end - chunk_end) > 0
       THEN end ELSE chunk_end

\* PASS 1, duration > MAX_DURATION: the while loop that splits by time
RECURSIVE Pass1Chunks(_, _, _, _, _)
Pass1Chunks(ws, scene, current_time, end, part) ==
  IF ~(current_time < end) THEN <<>>
  ELSE LET chunk_end == Pass1ChunkEnd(current_time, end)
       IN <<MkScene(Round2(current_time), Round2(chunk_end),
                    get_text_for_range(ws, current_time, chunk_end),
                    VariedQuery(scene.visual_query, part),
                    GetMediaSource(scene))>>
          \o Pass1Chunks(ws, scene, chunk_end, end, part + 1)

\* Variant of the sort: the list is left in the order of the proposals
SortScenes_Unsorted(ss) == ss

\* split_scenes.sort(key=lambda x: x['start_time']): stable
RECURSIVE InsertScene(_, _)
InsertScene(sorted, x) ==
  IF sorted = <<>> THEN <<x>>
  ELSE IF sorted[Len(sorted)].start_time <= x.start_time THEN Append(sorted, x)
  ELSE Append(InsertScene(SubSeq(sorted, 1, Len(sorted) - 1), x), sorted[Len(sorted)])

RECURSIVE SortScenes(_)
SortScenes(ss) ==
  IF ss = <<>> THEN <<>>
  ELSE InsertScene(SortScenes(SubSeq(ss, 1, Len(ss) - 1)), ss[Len(ss)])

\* Variant of the gap fill: one filler over the whole gap
Fillers_Single(prev, fill_start, fill_end) ==
  IF ~(fill_start < fill_end) THEN <<>>
  ELSE <<[start_time |-> fill_start, end_time |-> fill_end, text |-> <<>>,
          visual_query |-> prev.visual_query \o <<" (Atmospheric)">>,
          media_source |-> prev.media_source]>>

\* PASS 2: the fillers of the gap [fill_start, fill_end), built from prev
RECURSIVE Fillers(_, _, _)
Fillers(prev, fill_start, fill_end) ==
  IF ~(fill_start < fill_end) THEN <<>>
  ELSE LET chunk_end == Min(fill_start + FILLER_CHUNK_SIZE, fill_end)
       IN <<MkScene(Round2(fill_start), Round2(chunk_end), <<>>,
                    prev.visual_query \o <<" (Atmospheric)">>,
                    prev.media_source)>>
          \o Fillers(prev, chunk_end, fill_end)

\* PASS 2: curr after the overlap branch
ClampOverlap(prev, curr) ==
  LET c1 == [curr EXCEPT !.start_time = prev.end_time]
  IN IF c1.end_time <= c1.start_time
       THEN [c1 EXCEPT !.end_time = c1.start_time + MIN_DURATION]
       ELSE c1

\* Variant of the merge: prev's end is extended, curr's text is lost
MergeShort_DropText(prev, curr) ==
  [prev EXCEPT !.end_time = Max(prev.end_time, curr.end_time)]

\* PASS 2: prev after a short curr was merged into it
MergeShort(prev, curr) ==
  [prev EXCEPT !.end_time = Max(prev.end_time, curr.end_time),
               !.text = IF curr.text # <<>> THEN prev.text \o curr.text
                        ELSE prev.text]

\* PASS 2: index in final_scenes of the dict that `prev` names while curr is
\* merged or appended; `prev = final_scenes[-1]` is bound at the top of the
\* iteration, before any filler is appended, and is not bound again
PrevIndex(final, fillers) == Len(final)

\* PASS 2: one iteration for i > 0 (lines 350-387)
Reconcile(final, scene) ==
  LET p0 == Len(final)
      prev0 == final[p0]
      gap == scene.start_time - prev0.end_time
      fillers == IF gap > GAP_TOLERANCE
                   THEN Fillers(prev0, prev0.end_time, scene.start_time)
                   ELSE <<>>
      curr == IF gap > GAP_TOLERANCE THEN scene
              ELSE IF gap < -GAP_TOLERANCE THEN ClampOverlap(prev0, scene)
              ELSE scene
      filled == final \o fillers
      p == PrevIndex(final, fillers)
      curr_duration == curr.end_time - curr.start_time
  IN IF curr_duration < MIN_DURATION
       THEN [filled EXCEPT ![p] = MergeShort(filled[p], curr)]
       ELSE Append(filled, curr)

\* PASS 3: first part number of a re-split (part = 0 before the while loop)
Pass3FirstPart == 0

\* Variant of the PASS 3 chunk end: the chunk is not capped at 8 s
Pass3ChunkEnd_Uncapped(current_time, end) == end

\* PASS 3: chunk_end of the chunk that begins at current_time
Pass3ChunkEnd(current_time, end) == Min(current_time + FILLER_CHUNK_SIZE, end)

\* PASS 3, duration > MAX_DURATION: the while loop that force-splits by time
RECURSIVE Pass3Chunks(_, _, _, _, _)
Pass3Chunks(ws, scene, current_time, end, part) ==
  IF ~(current_time < end) THEN <<>>
  ELSE LET chunk_end == Pass3ChunkEnd(current_time, end)
       IN <<MkScene(Round2(current_time), Round2(chunk_end),
                    get_text_for_range(ws, current_time, chunk_end),
                    VariedQuery(scene.visual_query, part),
                    GetMediaSource(scene))>>
          \o Pass3Chunks(ws, scene, chunk_end, end, part + 1)

\* Variant of the id: the enumerate index itself
SceneId_ZeroBased(i) == i

\* for i, scene in enumerate(validated_scenes): scene['id'] = i + 1
SceneId(i) == i + 1
AssignIds(vs) == [k \in 1..Len(vs) |-> [vs[k] EXCEPT !.id = SceneId(k - 1)]]

\* lines 290-291: start = float(scene.get('start_time', 0)), end likewise
Start(scene) == Coerce(scene.start_kind, scene.start_time)
End(scene) == Coerce(scene.end_kind, scene.end_time)
WellFormed(scene) == Coercible(scene.start_kind) /\ Coercible(scene.end_kind)

\* ------------------------------------- the whole function, pass after pass
\* PASS 1 over a list of proposals float() accepts
RECURSIVE Pass1All(_, _)
Pass1All(ss, ws) ==
  IF ss = <<>> THEN <<>>
  ELSE LET scene == Head(ss)
           start == Start(scene)
           end == End(scene)
           out == IF Invalid(end - start) THEN <<>>
                  ELSE IF ~TooLong(end - start) THEN <<KeepAsIs(scene, start, end)>>
                  ELSE Pass1Chunks(ws, scene, start, end, Pass1FirstPart)
       IN out \o Pass1All(Tail(ss), ws)

\* PASS 2 from element k of the sorted list on
RECURSIVE Pass2All(_, _, _)
Pass2All(final, ss, k) ==
  IF k > Len(ss) THEN final
  ELSE IF k = 1 THEN Pass2All(<<ss[1]>>, ss, 2)
  ELSE Pass2All(Reconcile(final, ss[k]), ss, k + 1)

\* PASS 3 over final_scenes
RECURSIVE Pass3All(_, _)
Pass3All(fs, ws) ==
  IF fs = <<>> THEN <<>>
  ELSE LET scene == Head(fs)
       IN (IF ~TooLong(scene.end_time - scene.start_time) THEN <<scene>>
           ELSE Pass3Chunks(ws, scene, scene.start_time, scene.end_time,
                            Pass3FirstPart))
          \o Pass3All(Tail(fs), ws)

\* _validate_and_fix_scenes(scenes, word_subtitles) when nothing raises
ValidateAndFix(ss, ws) ==
  IF ss = <<>> THEN <<>>
  ELSE LET split == Pass1All(ss, ws)
       IN IF split = <<>> THEN <<>>
          ELSE AssignIds(Pass3All(Pass2All(<<>>, SortScenes(split), 1), ws))

\* ------------------------------------------------ the caller's objects
\* Variant of line 275: word_subtitles.sort(...) sorts the caller's list
ArgumentAfterSorted_InPlace(ws) == SortWords(ws)

\* line 275: sorted() builds a new list; the argument list stays as it is
ArgumentAfterSorted(ws) == ws

\* lines 299-305 and 325-331: what is appended to split_scenes for proposal k
\* is a dict literal, a new object; the set of proposals it is the same
\* object as is empty
SharedWithProposal(k) == {}

\* ------------------------------------------------------------ the inputs
\* Word timings [word, start, end] the subtitle service may hand over: none,
\* a start-sorted list, and the same entries out of order.
WordA == [text |-> "a", start |-> 0, end |-> 400]
WordB == [text |-> "b", start |-> 3000, end |-> 3400]
WordC == [text |-> "c", start |-> 9000, end |-> 9500]
WordD == [text |-> "d", start |-> 7900, end |-> 8300]
WordLists ==
  { <<>>, <<WordA, WordB, WordC>>, <<WordC, WordA, WordB>>, <<WordB, WordD, WordA>> }
WordTexts(ws) == {ws[k].text : k \in 1..Len(ws)}

\* (start_time, end_time) of the proposals, in ms
TimePairs ==
  { <<0, 4>>, <<0, 300>>, <<0, 3000>>, <<0, 5000>>, <<0, 9800>>,
    <<0, 15000>>, <<0, 16300>>, <<3050, 19500>>,
    <<3000, 3000>>, <<5000, 3000>>,
    <<500, 5000>>, <<3050, 6000>>, <<4000, 9000>>, <<5000, 5300>>,
    <<5000, 8000>>, <<8000, 9000>>, <<9800, 10200>>, <<10000, 10300>>,
    <<16000, 16300>> }

\* A proposal dict of the LLM.  start_kind / end_kind: "num" (a number),
\* "missing" (no such key) or "bad" (a value float() rejects).  id = 0: no id.
MkProposal(sk, st, ek, en, text, vq, ms, id) ==
  [id |-> id, start_kind |-> sk, start_time |-> st, end_kind |-> ek,
   end_time |-> en, text |-> text, visual_query |-> vq, media_source |-> ms]

Timings ==
  { <<"num", tp[1], "num", tp[2]>> : tp \in TimePairs }
  \cup { <<"bad", 0, "num", 5000>>, <<"missing", 0, "num", 5000>>,
         <<"num", 3000, "missing", 0>> }

ForeignText == <<"zz">>
ProposalIds == {99}

\* The proposals for the word timings ws: each timing either with the text of
\* the words that start in its range, a query, a media source and an id, or
\* with a text of its own and the optional keys absent.
Proposals(ws) ==
  { MkProposal(t[1], t[2], t[3], t[4],
               get_text_for_range(ws, t[2], t[4]), <<"q">>, "pexels", id)
      : t \in Timings, id \in ProposalIds }
  \cup
  { MkProposal(t[1], t[2], t[3], t[4], ForeignText, <<>>, ABSENT, 0)
      : t \in Timings }

SeqsUpTo(S, n) == UNION { [1..k -> S] : k \in 0..n }

\* ---------------------------------------------------------------- the state
VARIABLES
  scenes,            \* argument: the proposal list
  word_subtitles,    \* argument: the word timings
  pc,                \* position in _validate_and_fix_scenes / its caller
  i,                 \* index of the next element of the running loop (1-based)
  split_scenes,      \* PASS 1 output
  final_scenes,      \* PASS 2 output
  validated_scenes,  \* PASS 3 output, the returned list
  result,            \* what segment_script_and_generate_queries returns
  aliases,           \* proposals whose dict is also an element of an engine list
  response           \* what the POST to the LLM endpoint came to

\* AsyncTaskManager (src/utils/async_utils.py) and the UI thread that uses it
VARIABLES
  task_queue,        \* self.task_queue: the submitted tasks not yet taken
  result_queue,      \* self.result_queue: (callback, result, error) entries
  is_running,        \* self.is_running
  worker_pc,         \* position of the worker thread in _worker
  worker_task,       \* the task the worker took from task_queue
  ui_pc,             \* position of the UI thread
  polling,           \* a timer for _check_tasks is pending
  submitted,         \* every task submitted so far, in submission order
  started,           \* ids of the tasks whose function was called, in order
  finished,          \* ids of the tasks whose function has returned or raised
  posted,            \* every entry ever put on result_queue, in order
  invoked,           \* every callback call made by check_results, in order
  stop_returned,     \* stop() has returned
  in_flight_at_stop  \* id of the task that was executing when stop() was called

taskVars == <<task_queue, result_queue, is_running, worker_pc, worker_task,
              ui_pc, polling, submitted, started, finished, posted, invoked,
              stop_returned, in_flight_at_stop>>

NoTask == [id |-> 0, callback |-> FALSE, raises |-> FALSE, callback_raises |-> FALSE]

\* the components that take no step in a specification stay as constructed
TasksParked ==
  /\ task_queue = <<>>
  /\ result_queue = <<>>
  /\ is_running = TRUE
  /\ worker_pc = "test"
  /\ worker_task = NoTask
  /\ ui_pc = "idle"
  /\ polling = TRUE
  /\ submitted = <<>>
  /\ started = <<>>
  /\ finished = {}
  /\ posted = <<>>
  /\ invoked = <<>>
  /\ stop_returned = FALSE
  /\ in_flight_at_stop = 0

\* VideoService.combine_scenes (src/services/video_service.py) and the thread
\* that calls stop_generation
VARIABLES
  stop_event,        \* self.stop_event is set
  render_pc,         \* position of the worker in combine_scenes
  n_scenes,          \* len(scenes) of the run
  render_k,          \* the scene of the loop iteration (1-based)
  scene_clips,       \* scene_clips: the scenes a clip was created for
  temp_clips,        \* self.temp_clips: the open clips
  closed_clips,      \* the clips of the run that were closed
  stop_before,       \* the iteration not yet begun when stop_generation set
                     \* the flag during the run (0: flag not set in the run)
  runs               \* calls of combine_scenes so far

renderVars == <<stop_event, render_pc, n_scenes, render_k, scene_clips,
                temp_clips, closed_clips, stop_before, runs>>

RenderParked ==
  /\ stop_event = FALSE
  /\ render_pc = "idle"
  /\ n_scenes = 0
  /\ render_k = 1
  /\ scene_clips = <<>>
  /\ temp_clips = <<>>
  /\ closed_clips = {}
  /\ stop_before = 0
  /\ runs = 0

\* App._fetch_all_media on the worker thread and the scene rows of the UI
\* (src/ui/main_window.py)
VARIABLES
  fetch_scenes,      \* self.scenes: media_path, media_url, media_source of each
  fetch_queue,       \* the fetch tasks submitted and not yet taken
  fetch_pc,          \* position of the worker in the fetch task it runs
  fetch_all,         \* the task it runs is _fetch_all_media
  fetch_k,           \* the scene it is at (1-based)
  fetch_source,      \* `source` of _fetch_single_scene_media
  cancel_requested,  \* the user closed the window: stop() was called
  retries,           \* Fetch/Retry clicks so far
  manual,            \* scenes with an upload and no Fetch/Retry click since
  fetched_after_cancel \* scenes _fetch_all_media began after the cancellation

fetchVars == <<fetch_scenes, fetch_queue, fetch_pc, fetch_all, fetch_k,
               fetch_source, cancel_requested, retries, manual,
               fetched_after_cancel>>

FetchParked ==
  /\ fetch_scenes = <<>>
  /\ fetch_queue = <<>>
  /\ fetch_pc = "wait"
  /\ fetch_all = FALSE
  /\ fetch_k = 1
  /\ fetch_source = "none"
  /\ cancel_requested = FALSE
  /\ retries = 0
  /\ manual = {}
  /\ fetched_after_cancel = {}

\* the variables of the other components
others == <<taskVars, renderVars, fetchVars>>

vars == <<scenes, word_subtitles, pc, i, split_scenes, final_scenes,
          validated_scenes, result, aliases, response, others>>

\* What the request can come to: an answer whose content parses to a dict
\* with a list under "scenes" ("ok"), a status other than 200, a timeout,
\* another exception of requests.post, content that json.loads rejects, a
\* parsed value that is no container (a number, null), a dict without
\* "scenes", a dict whose "scenes" is no list.
Responses ==
  {"ok", "non200", "timeout", "error", "unparsable", "not_container",
   "no_scenes", "scenes_not_list"}

NoResult == [returned |-> FALSE, scenes |-> <<>>]

Init ==
  /\ word_subtitles \in WordLists
  /\ response \in Responses
  /\ scenes \in IF response = "ok"
                  THEN SeqsUpTo(Proposals(word_subtitles), MaxScenes)
                  ELSE {<<>>}
  /\ pc = "request"
  /\ i = 1
  /\ split_scenes = <<>>
  /\ final_scenes = <<>>
  /\ validated_scenes = <<>>
  /\ result = NoResult
  /\ aliases = {}
  /\ TasksParked
  /\ RenderParked
  /\ FetchParked

Inputs == <<scenes, word_subtitles>>

\* line 166: requests.post raises Timeout; lines 230-232 return {"scenes": []}
RequestTimeout ==
  /\ pc = "request"
  /\ response = "timeout"
  /\ result' = [returned |-> TRUE, scenes |-> <<>>]
  /\ pc' = "done"
  /\ UNCHANGED <<response, others, Inputs, aliases, i, split_scenes, final_scenes, validated_scenes>>

\* line 166: requests.post raises another exception
RequestRaises ==
  /\ pc = "request"
  /\ response = "error"
  /\ pc' = "failed"
  /\ UNCHANGED <<response, others, Inputs, aliases, i, split_scenes, final_scenes, validated_scenes, result>>

\* lines 170, 225-228: status_code != 200
StatusNot200 ==
  /\ pc = "request"
  /\ response = "non200"
  /\ result' = [returned |-> TRUE, scenes |-> <<>>]
  /\ pc' = "done"
  /\ UNCHANGED <<response, others, Inputs, aliases, i, split_scenes, final_scenes, validated_scenes>>

\* lines 180-205: json.loads(content) raises JSONDecodeError, and so does
\* json.loads(result_text) in its handler
ParseRaises ==
  /\ pc = "request"
  /\ response = "unparsable"
  /\ pc' = "failed"
  /\ UNCHANGED <<response, others, Inputs, aliases, i, split_scenes, final_scenes, validated_scenes, result>>

\* line 210: "scenes" in parsed_result raises TypeError
StructureRaises ==
  /\ pc = "request"
  /\ response = "not_container"
  /\ pc' = "failed"
  /\ UNCHANGED <<response, others, Inputs, aliases, i, split_scenes, final_scenes, validated_scenes, result>>

\* lines 210, 219-224: no list under "scenes"
InvalidStructure ==
  /\ pc = "request"
  /\ response \in {"no_scenes", "scenes_not_list"}
  /\ result' = [returned |-> TRUE, scenes |-> <<>>]
  /\ pc' = "done"
  /\ UNCHANGED <<response, others, Inputs, aliases, i, split_scenes, final_scenes, validated_scenes>>

\* lines 210-214: _validate_and_fix_scenes(parsed_result["scenes"], word_subtitles)
CallValidate ==
  /\ pc = "request"
  /\ response = "ok"
  /\ pc' = "entry"
  /\ UNCHANGED <<response, others, Inputs, aliases, i, split_scenes, final_scenes, validated_scenes, result>>

\* lines 253-254: if not scenes: return []
ReturnEmptyInput ==
  /\ pc = "entry"
  /\ scenes = <<>>
  /\ pc' = "returned"
  /\ UNCHANGED <<response, others, Inputs, aliases, i, split_scenes, final_scenes, validated_scenes, result>>

\* lines 256-287: constants, sorted_words, split_scenes = []
EnterPass1 ==
  /\ pc = "entry"
  /\ scenes # <<>>
  /\ pc' = "pass1"
  /\ i' = 1
  /\ word_subtitles' = ArgumentAfterSorted(word_subtitles)
  /\ UNCHANGED <<response, others, scenes, aliases, split_scenes, final_scenes, validated_scenes, result>>

\* lines 290-291: float() raises ValueError / TypeError
Pass1Raise ==
  /\ pc = "pass1"
  /\ i <= Len(scenes)
  /\ ~Coercible(scenes[i].start_kind) \/ ~Coercible(scenes[i].end_kind)
  /\ pc' = "raised"
  /\ UNCHANGED <<response, others, Inputs, aliases, i, split_scenes, final_scenes, validated_scenes, result>>

\* lines 294-295: duration <= 0, skip
Pass1Drop ==
  /\ pc = "pass1"
  /\ i <= Len(scenes)
  /\ Coercible(scenes[i].start_kind) /\ Coercible(scenes[i].end_kind)
  /\ Invalid(End(scenes[i]) - Start(scenes[i]))
  /\ i' = i + 1
  /\ UNCHANGED <<response, others, Inputs, aliases, pc, split_scenes, final_scenes, validated_scenes, result>>

\* lines 297-305: duration <= MAX_DURATION, add as-is
Pass1Keep ==
  /\ pc = "pass1"
  /\ i <= Len(scenes)
  /\ Coercible(scenes[i].start_kind) /\ Coercible(scenes[i].end_kind)
  /\ LET start == Start(scenes[i])
         end == End(scenes[i])
     IN /\ ~Invalid(end - start)
        /\ ~TooLong(end - start)
        /\ split_scenes' = Append(split_scenes, KeepAsIs(scenes[i], start, end))
  /\ aliases' = aliases \cup SharedWithProposal(i)
  /\ i' = i + 1
  /\ UNCHANGED <<response, others, Inputs, pc, final_scenes, validated_scenes, result>>

\* lines 306-334: duration > MAX_DURATION, split by time
Pass1Split ==
  /\ pc = "pass1"
  /\ i <= Len(scenes)
  /\ Coercible(scenes[i].start_kind) /\ Coercible(scenes[i].end_kind)
  /\ LET start == Start(scenes[i])
         end == End(scenes[i])
     IN /\ ~Invalid(end - start)
        /\ TooLong(end - start)
        /\ split_scenes' = split_scenes \o
             Pass1Chunks(word_subtitles, scenes[i], start, end, Pass1FirstPart)
  /\ aliases' = aliases \cup SharedWithProposal(i)
  /\ i' = i + 1
  /\ UNCHANGED <<response, others, Inputs, pc, final_scenes, validated_scenes, result>>

\* lines 336-337: if not split_scenes: return []
ReturnEmptySplit ==
  /\ pc = "pass1"
  /\ i > Len(scenes)
  /\ split_scenes = <<>>
  /\ pc' = "returned"
  /\ UNCHANGED <<response, others, Inputs, aliases, i, split_scenes, final_scenes, validated_scenes, result>>

\* lines 339-343: sort by start_time, final_scenes = []
SortSplitScenes ==
  /\ pc = "pass1"
  /\ i > Len(scenes)
  /\ split_scenes # <<>>
  /\ split_scenes' = SortScenes(split_scenes)
  /\ pc' = "pass2"
  /\ i' = 1
  /\ UNCHANGED <<response, others, Inputs, aliases, final_scenes, validated_scenes, result>>

\* lines 346-348: the first scene is appended as it is (the same dict)
Pass2First ==
  /\ pc = "pass2"
  /\ i = 1
  /\ final_scenes' = Append(final_scenes, split_scenes[1])
  /\ i' = i + 1
  /\ UNCHANGED <<response, others, Inputs, aliases, pc, split_scenes, validated_scenes, result>>

Gap == split_scenes[i].start_time - final_scenes[Len(final_scenes)].end_time

\* final_scenes[0] is the dict split_scenes[0]: a merge into it shows in both
Pass2Step ==
  /\ final_scenes' = Reconcile(final_scenes, split_scenes[i])
  /\ split_scenes' = [split_scenes EXCEPT ![1] = final_scenes'[1]]
  /\ i' = i + 1
  /\ UNCHANGED <<response, others, Inputs, aliases, pc, validated_scenes, result>>

\* lines 355-371 and 379-387: gap > 0.1, fill it, then merge or append curr
Pass2Gap ==
  /\ pc = "pass2"
  /\ 1 < i /\ i <= Len(split_scenes)
  /\ Gap > GAP_TOLERANCE
  /\ Pass2Step

\* lines 373-377 and 379-387: gap < -0.1, clamp curr, then merge or append it
Pass2Overlap ==
  /\ pc = "pass2"
  /\ 1 < i /\ i <= Len(split_scenes)
  /\ Gap < -GAP_TOLERANCE
  /\ Pass2Step

\* lines 379-387: gap within the tolerance, merge or append curr unchanged
Pass2Contiguous ==
  /\ pc = "pass2"
  /\ 1 < i /\ i <= Len(split_scenes)
  /\ Gap >= -GAP_TOLERANCE /\ Gap <= GAP_TOLERANCE
  /\ Pass2Step

\* lines 389-391: validated_scenes = []
EnterPass3 ==
  /\ pc = "pass2"
  /\ i > Len(split_scenes)
  /\ pc' = "pass3"
  /\ i' = 1
  /\ UNCHANGED <<response, others, Inputs, aliases, split_scenes, final_scenes, validated_scenes, result>>

\* lines 396-397: duration <= MAX_DURATION
Pass3Keep ==
  /\ pc = "pass3"
  /\ i <= Len(final_scenes)
  /\ ~TooLong(final_scenes[i].end_time - final_scenes[i].start_time)
  /\ validated_scenes' = Append(validated_scenes, final_scenes[i])
  /\ i' = i + 1
  /\ UNCHANGED <<response, others, Inputs, aliases, pc, split_scenes, final_scenes, result>>

\* lines 398-423: duration > MAX_DURATION, force split by time
Pass3Split ==
  /\ pc = "pass3"
  /\ i <= Len(final_scenes)
  /\ TooLong(final_scenes[i].end_time - final_scenes[i].start_time)
  /\ validated_scenes' = validated_scenes \o
       Pass3Chunks(word_subtitles, final_scenes[i], final_scenes[i].start_time,
                   final_scenes[i].end_time, Pass3FirstPart)
  /\ i' = i + 1
  /\ UNCHANGED <<response, others, Inputs, aliases, pc, split_scenes, final_scenes, result>>

\* lines 425-429: assign sequential ids, return validated_scenes
AssignIdsAndReturn ==
  /\ pc = "pass3"
  /\ i > Len(final_scenes)
  /\ validated_scenes' = AssignIds(validated_scenes)
  /\ pc' = "returned"
  /\ UNCHANGED <<response, others, Inputs, aliases, i, split_scenes, final_scenes, result>>

\* lines 216-219: return {"scenes": validated_scenes}
CallerReturn ==
  /\ pc = "returned"
  /\ result' = [returned |-> TRUE, scenes |-> validated_scenes]
  /\ pc' = "done"
  /\ UNCHANGED <<response, others, Inputs, aliases, i, split_scenes, final_scenes, validated_scenes>>

\* Variant of the handler: only what fails before the validation is caught
CallerCatch_RequestOnly ==
  /\ pc = "failed"
  /\ result' = [returned |-> TRUE, scenes |-> <<>>]
  /\ pc' = "done"
  /\ UNCHANGED <<response, others, Inputs, aliases, i, split_scenes, final_scenes, validated_scenes>>

\* lines 233-235: except Exception: return {"scenes": []}
CallerCatch ==
  /\ pc \in {"raised", "failed"}
  /\ result' = [returned |-> TRUE, scenes |-> <<>>]
  /\ pc' = "done"
  /\ UNCHANGED <<response, others, Inputs, aliases, i, split_scenes, final_scenes, validated_scenes>>

Next ==
  \/ RequestTimeout
  \/ RequestRaises
  \/ StatusNot200
  \/ ParseRaises
  \/ StructureRaises
  \/ InvalidStructure
  \/ CallValidate
  \/ ReturnEmptyInput
  \/ EnterPass1
  \/ Pass1Raise
  \/ Pass1Drop
  \/ Pass1Keep
  \/ Pass1Split
  \/ ReturnEmptySplit
  \/ SortSplitScenes
  \/ Pass2First
  \/ Pass2Gap
  \/ Pass2Overlap
  \/ Pass2Contiguous
  \/ EnterPass3
  \/ Pass3Keep
  \/ Pass3Split
  \/ AssignIdsAndReturn
  \/ CallerReturn
  \/ CallerCatch

Spec == Init /\ [][Next]_vars

\* The steps above compute what the passes compute when run as a whole.
StepsAgreeWithPasses ==
  pc = "returned" /\ (\A k \in 1..Len(scenes) : WellFormed(scenes[k]))
    => validated_scenes = ValidateAndFix(scenes, word_subtitles)

\* ------------------------------------------------------------- properties
Returned == pc = "returned"
Duration(scene) == scene.end_time - scene.start_time
Positive(scene) == WellFormed(scene) /\ End(scene) > Start(scene)
TextWords(ss) == UNION {Range(ss[k].text) : k \in 1..Len(ss)}

\* C1: every returned scene lasts at most MAX_DURATION (10 s), within the
\* 0.01 s rounding tolerance, also when a merge enlarged it in PASS 2.
C1_DurationBound ==
  Returned =>
    \A k \in 1..Len(validated_scenes) :
      Duration(validated_scenes[k]) <= MAX_DURATION + CENTI

\* a scene that left PASS 2 longer than 10 s was re-split and returned
C1_Witness ==
  /\ Returned
  /\ \E k \in 1..Len(final_scenes) : TooLong(Duration(final_scenes[k]))
  /\ Len(validated_scenes) > Len(final_scenes)

\* C2: the returned list is contiguous: each scene starts where the scene
\* before it ends, to within 0.01 s.
C2_Contiguity ==
  Returned =>
    \A k \in 1..(Len(validated_scenes) - 1) :
      /\ validated_scenes[k + 1].start_time - validated_scenes[k].end_time <= CENTI
      /\ validated_scenes[k].end_time - validated_scenes[k + 1].start_time <= CENTI

\* C3: the returned list is in ascending start_time order.
C3_Ordering ==
  Returned =>
    \A k \in 1..(Len(validated_scenes) - 1) :
      validated_scenes[k].start_time <= validated_scenes[k + 1].start_time

\* C4: the ids of the returned scenes are 1, 2, ..., N in list order and no
\* proposal-supplied id is among them.
C4_SequentialIds ==
  Returned =>
    \A k \in 1..Len(validated_scenes) :
      /\ validated_scenes[k].id = k
      /\ validated_scenes[k].id \notin ProposalIds

\* several scenes were returned for proposals that carried an id of their own
C4_Witness ==
  /\ Returned
  /\ Len(validated_scenes) >= 2
  /\ \E k \in 1..Len(scenes) : scenes[k].id \in ProposalIds

\* C5: no returned scene is degenerate: end_time > start_time for each.
C5_NoDegenerateScene ==
  Returned =>
    \A k \in 1..Len(validated_scenes) :
      validated_scenes[k].end_time > validated_scenes[k].start_time

\* span of the proposals with a positive duration, and of the word timings
SetMax(S) == IF S = {} THEN 0 ELSE CHOOSE y \in S : \A z \in S : z <= y
SetMin(S) == IF S = {} THEN 0 ELSE CHOOSE y \in S : \A z \in S : y <= z
ProposalSpan ==
  LET P == {k \in 1..Len(scenes) : Positive(scenes[k])}
  IN SetMax({End(scenes[k]) : k \in P}) - SetMin({Start(scenes[k]) : k \in P})
WordSpan ==
  SetMax({word_subtitles[k].end : k \in 1..Len(word_subtitles)})
  - SetMin({word_subtitles[k].start : k \in 1..Len(word_subtitles)})

\* C6: unless the input spans less than MIN_DURATION (0.5 s), no returned
\* scene other than the last one is shorter than MIN_DURATION.
C6_MinimumDuration ==
  Returned /\ ProposalSpan >= MIN_DURATION /\ WordSpan >= MIN_DURATION =>
    \A k \in 1..(Len(validated_scenes) - 1) :
      Duration(validated_scenes[k]) >= MIN_DURATION

\* C7: with an empty proposal list, or one whose proposals all have
\* end_time <= start_time, the function raises nothing, runs no later pass
\* and returns the empty list.
AllNonPositive ==
  \A k \in 1..Len(scenes) :
    WellFormed(scenes[k]) /\ End(scenes[k]) - Start(scenes[k]) <= 0

C7_EmptyOnInvalidInput ==
  AllNonPositive =>
    /\ pc \notin {"raised", "pass2", "pass3"}
    /\ pc \in {"returned", "done"} => validated_scenes = <<>>
    /\ pc = "done" => result.scenes = <<>>

\* a list of only non-positive proposals went through PASS 1 and was returned
C7_Witness ==
  /\ Returned
  /\ Len(scenes) >= 2
  /\ AllNonPositive

\* C8: with exactly one malformed proposal (start_time or end_time missing or
\* not a number) the caller receives the scenes built from the other
\* proposals.
HasTimes(scene) == scene.start_kind = "num" /\ scene.end_kind = "num"

C8_MalformedProposalDropped ==
  pc = "done" /\ Cardinality({k \in 1..Len(scenes) : ~HasTimes(scenes[k])}) = 1 =>
    result.scenes = ValidateAndFix(SelectSeq(scenes, HasTimes), word_subtitles)

\* C9 as stated: with no word timings the returned list is empty.
C9_EmptyWordsEmptyOutput ==
  Returned /\ word_subtitles = <<>> => validated_scenes = <<>>

\* C9 amended: with no word timings the function, when it returns, returns
\* the empty list exactly when no proposal has end_time > start_time.
C9_EmptyWordsKeepProposals ==
  Returned /\ word_subtitles = <<>> =>
    (validated_scenes = <<>> <=> ~\E k \in 1..Len(scenes) : Positive(scenes[k]))

\* scenes were returned although there are no word timings
C9_Witness ==
  /\ Returned
  /\ word_subtitles = <<>>
  /\ validated_scenes # <<>>

AsProposal(scene) ==
  MkProposal("num", scene.start_time, "num", scene.end_time, scene.text,
             scene.visual_query, scene.media_source, scene.id)
AsProposals(ss) == [k \in 1..Len(ss) |-> AsProposal(ss[k])]
WithoutIds(ss) == [k \in 1..Len(ss) |-> [ss[k] EXCEPT !.id = 0]]

ValidInput ==
  \A k \in 1..Len(scenes) :
    /\ HasTimes(scenes[k])
    /\ scenes[k].end_time - scenes[k].start_time <= MAX_DURATION
    /\ k > 1 => scenes[k].start_time = scenes[k - 1].end_time

C11_IdempotentOnValidInput ==
  Returned /\ ValidInput =>
    WithoutIds(ValidateAndFix(AsProposals(validated_scenes), word_subtitles))
      = WithoutIds(validated_scenes)

OneLongProposal ==
  /\ Len(scenes) = 1
  /\ HasTimes(scenes[1])
  /\ scenes[1].end_time - scenes[1].start_time > MAX_DURATION
  /\ scenes[1].visual_query # <<>>

C13_SplitVariationByIndex ==
  Returned /\ OneLongProposal =>
    /\ \A k \in 1..Len(validated_scenes) :
         validated_scenes[k].visual_query
           = scenes[1].visual_query
               \o SPLIT_VARIATIONS[((k - 1) % Len(SPLIT_VARIATIONS)) + 1]
    /\ (scenes[1].start_time = 0 /\ scenes[1].end_time = 15000
        /\ scenes[1].visual_query = <<"q">>)
         => /\ Len(validated_scenes) = 2
            /\ validated_scenes[1].start_time = 0
            /\ validated_scenes[1].end_time = 8000
            /\ validated_scenes[1].visual_query = <<"q">>
            /\ validated_scenes[2].start_time = 8000
            /\ validated_scenes[2].end_time = 15000
            /\ validated_scenes[2].visual_query = <<"q", ", different angle">>

\* C14: PASS 1 replaces a proposal longer than MAX_DURATION by at least two
\* chunks that begin at its start, follow each other without a gap and end at
\* its end (times rounded to 0.01 s); every chunk but the last lasts 8 s, and
\* no chunk is shorter than 0.5 s or longer than 8.5 s.
FirstProposalSplit ==
  /\ pc = "pass1"
  /\ i = 2
  /\ HasTimes(scenes[1])
  /\ scenes[1].end_time - scenes[1].start_time > MAX_DURATION

Near(a, b) == a - b < CENTI /\ b - a < CENTI

C14_FirstPassSplit ==
  FirstProposalSplit =>
    LET n == Len(split_scenes)
    IN /\ n >= 2
       /\ Near(split_scenes[1].start_time, scenes[1].start_time)
       /\ Near(split_scenes[n].end_time, scenes[1].end_time)
       /\ \A k \in 1..(n - 1) :
            /\ split_scenes[k + 1].start_time = split_scenes[k].end_time
            /\ Duration(split_scenes[k]) = 8000
       /\ \A k \in 1..n :
            /\ Duration(split_scenes[k]) >= 500
            /\ Duration(split_scenes[k]) <= 8500

\* a split whose remainder of less than 0.5 s went into the last chunk
C14_Witness ==
  /\ FirstProposalSplit
  /\ Len(split_scenes) >= 2
  /\ Duration(split_scenes[Len(split_scenes)]) > 8000

\* C15: the chunks PASS 3 makes of a scene longer than MAX_DURATION are the
\* chunks PASS 1 makes of a proposal with the same start, end and
\* visual_query: same boundaries, same text, same visual_query per chunk.
FirstSceneReSplit ==
  /\ pc = "pass3"
  /\ i = 2
  /\ TooLong(Duration(final_scenes[1]))

C15_SamePassOneAndThreeChunks ==
  FirstSceneReSplit =>
    validated_scenes
      = Pass1Chunks(word_subtitles, final_scenes[1], final_scenes[1].start_time,
                    final_scenes[1].end_time, Pass1FirstPart)

\* C16: the text derived for a range [a, b) is made of the texts of exactly
\* the word timings with a <= start < b, wherever they end and in whatever
\* order the caller listed them, in ascending start order; it is empty when
\* no word starts in the range.
StartsIn(a, b) ==
  {k \in 1..Len(word_subtitles) :
     a <= word_subtitles[k].start /\ word_subtitles[k].start < b}

IsTextForRange(t, a, b) ==
  /\ Len(t) = Cardinality(StartsIn(a, b))
  /\ \E f \in [1..Len(t) -> StartsIn(a, b)] :
       /\ \A j, k \in 1..Len(t) : j # k => f[j] # f[k]
       /\ \A j \in 1..(Len(t) - 1) :
            word_subtitles[f[j]].start <= word_subtitles[f[j + 1]].start
       /\ \A j \in 1..Len(t) : t[j] = word_subtitles[f[j]].text

ChunksHaveRangeText(chunks) ==
  \A k \in 1..Len(chunks) :
    IsTextForRange(chunks[k].text, chunks[k].start_time, chunks[k].end_time)

C16_TextForRange ==
  /\ FirstProposalSplit => ChunksHaveRangeText(split_scenes)
  /\ FirstSceneReSplit => ChunksHaveRangeText(validated_scenes)

\* chunks derived from an unsorted word list: one holds a word that ends
\* after the chunk does, one has no word
C16_Witness ==
  /\ FirstProposalSplit
  /\ word_subtitles # SortWords(word_subtitles)
  /\ \E k \in 1..Len(split_scenes) :
       \E w \in StartsIn(split_scenes[k].start_time, split_scenes[k].end_time) :
         word_subtitles[w].end > split_scenes[k].end_time
  /\ \E k \in 1..Len(split_scenes) : split_scenes[k].text = <<>>

\* C17: when a scene starts more than 0.1 s after the previous accepted scene
\* ends, the scenes inserted before it tile [prev.end, curr.start): the first
\* starts at prev.end, each next one where the one before ended, the last ends
\* at curr.start, none is longer than 8 s; each has empty text, prev's
\* visual_query followed by " (Atmospheric)" and prev's media_source.
\* {0,3} then {5,8} gives exactly one filler {3,5}.
GapStep ==
  /\ pc = "pass2"
  /\ 1 < i /\ i <= Len(split_scenes)
  /\ split_scenes[i].start_time - final_scenes[Len(final_scenes)].end_time
       > GAP_TOLERANCE

C17_GapFill ==
  [][GapStep =>
       LET n == Len(final_scenes)
           prev == final_scenes[n]
           curr == split_scenes[i]
           emitted == IF Duration(curr) >= MIN_DURATION THEN 1 ELSE 0
           m == Len(final_scenes') - n - emitted
       IN /\ m >= 1
          /\ final_scenes'[n + 1].start_time = prev.end_time
          /\ \A k \in 1..(m - 1) :
               final_scenes'[n + k + 1].start_time = final_scenes'[n + k].end_time
          /\ final_scenes'[n + m].end_time = curr.start_time
          /\ \A k \in 1..m :
               /\ Duration(final_scenes'[n + k]) > 0
               /\ Duration(final_scenes'[n + k]) <= FILLER_CHUNK_SIZE
               /\ final_scenes'[n + k].text = <<>>
               /\ final_scenes'[n + k].visual_query
                    = prev.visual_query \o <<" (Atmospheric)">>
               /\ final_scenes'[n + k].media_source = prev.media_source
          /\ emitted = 1 => final_scenes'[n + m + 1] = curr
          /\ ( /\ prev.start_time = 0 /\ prev.end_time = 3000
               /\ curr.start_time = 5000 /\ curr.end_time = 8000 )
             => /\ m = 1
                /\ final_scenes'[n + 1].start_time = 3000
                /\ final_scenes'[n + 1].end_time = 5000
  ]_vars

IsFiller(scene) ==
  /\ scene.text = <<>>
  /\ scene.visual_query # <<>>
  /\ scene.visual_query[Len(scene.visual_query)] = " (Atmospheric)"

\* a gap of more than 8 s was filled with two fillers
C17_Witness ==
  /\ pc = "pass2"
  /\ i = 3
  /\ \E k \in 1..(Len(final_scenes) - 1) :
       /\ IsFiller(final_scenes[k])
       /\ IsFiller(final_scenes[k + 1])
       /\ final_scenes[k + 1].start_time = final_scenes[k].end_time
       /\ Duration(final_scenes[k]) = FILLER_CHUNK_SIZE

\* C18 as stated: after fillers were inserted for a gap, a following scene
\* shorter than MIN_DURATION is merged into the last filler, whose end is
\* extended, and the scene that preceded the gap is left unchanged.
C18_ShortSceneMergedIntoLastFiller ==
  [][GapStep /\ Duration(split_scenes[i]) < MIN_DURATION =>
       LET n == Len(final_scenes)
           last == Len(final_scenes')
       IN /\ last > n
          /\ final_scenes'[n] = final_scenes[n]
          /\ final_scenes'[last].end_time = split_scenes[i].end_time
  ]_vars

\* C19 as stated: a scene that starts more than 0.1 s before the previous
\* accepted scene ends gets start = prev.end and, if its end is then <= its
\* start, end = start + 0.5; {0,5} then {4,9} gives {0,5} and {5,9}; no
\* returned scene begins more than 0.1 s before its predecessor ends.
OverlapStep ==
  /\ pc = "pass2"
  /\ 1 < i /\ i <= Len(split_scenes)
  /\ split_scenes[i].start_time - final_scenes[Len(final_scenes)].end_time
       < -GAP_TOLERANCE

AdjustedStart(prev, curr) ==
  IF curr.start_time - prev.end_time < -GAP_TOLERANCE
    THEN prev.end_time ELSE curr.start_time

AdjustedEnd(prev, curr) ==
  IF /\ curr.start_time - prev.end_time < -GAP_TOLERANCE
     /\ curr.end_time <= prev.end_time
    THEN prev.end_time + MIN_DURATION ELSE curr.end_time

C19_OverlapClamp ==
  [][/\ OverlapStep =>
          LET n == Len(final_scenes)
              prev == final_scenes[n]
              curr == split_scenes[i]
          IN IF AdjustedEnd(prev, curr) - AdjustedStart(prev, curr) >= MIN_DURATION
               THEN final_scenes' =
                      Append(final_scenes,
                             [curr EXCEPT !.start_time = prev.end_time,
                                          !.end_time = AdjustedEnd(prev, curr)])
               ELSE Len(final_scenes') = n
     /\ ( /\ Returned /\ Len(scenes) = 2
          /\ scenes[1].start_time = 0 /\ scenes[1].end_time = 5000
          /\ scenes[2].start_time = 4000 /\ scenes[2].end_time = 9000
          /\ HasTimes(scenes[1]) /\ HasTimes(scenes[2]) )
        => /\ Len(validated_scenes) = 2
           /\ validated_scenes[1].start_time = 0
           /\ validated_scenes[1].end_time = 5000
           /\ validated_scenes[2].start_time = 5000
           /\ validated_scenes[2].end_time = 9000
     /\ Returned =>
          \A k \in 1..(Len(validated_scenes) - 1) :
            validated_scenes[k + 1].start_time
              >= validated_scenes[k].end_time - GAP_TOLERANCE
  ]_vars

\* C20: a non-first scene that lasts less than 0.5 s after the gap or overlap
\* adjustment is not appended; the scene that was last in the list when its
\* turn began (prev) gets end = max(prev.end, curr.end) and, if curr's text is
\* not empty, prev's text followed by curr's. {0,5} then {5,5.3} gives the
\* single scene {0,5.3} with both texts.
MergeStep ==
  /\ pc = "pass2"
  /\ 1 < i /\ i <= Len(split_scenes)
  /\ AdjustedEnd(final_scenes[Len(final_scenes)], split_scenes[i])
       - AdjustedStart(final_scenes[Len(final_scenes)], split_scenes[i])
       < MIN_DURATION

C20_ShortSceneMerged ==
  [][MergeStep =>
       LET n == Len(final_scenes)
           prev == final_scenes[n]
           curr == split_scenes[i]
       IN /\ \A k \in 1..Len(final_scenes') :
               k > n => final_scenes'[k].end_time <= curr.start_time
          /\ \A k \in 1..(n - 1) : final_scenes'[k] = final_scenes[k]
          /\ final_scenes'[n].start_time = prev.start_time
          /\ final_scenes'[n].end_time
               = Max(prev.end_time, AdjustedEnd(prev, curr))
          /\ final_scenes'[n].text
               = IF curr.text # <<>> THEN prev.text \o curr.text ELSE prev.text
          /\ final_scenes'[n].visual_query = prev.visual_query
          /\ final_scenes'[n].media_source = prev.media_source
          /\ ( /\ n = 1
               /\ prev.start_time = 0 /\ prev.end_time = 5000
               /\ curr.start_time = 5000 /\ curr.end_time = 5300 )
             => /\ Len(final_scenes') = 1
                /\ final_scenes'[1].start_time = 0
                /\ final_scenes'[1].end_time = 5300
                /\ final_scenes'[1].text = prev.text \o curr.text
  ]_vars

\* {0,5} and {5,5.3}, both with text, were merged into the single scene {0,5.3}
C20_Witness ==
  /\ pc = "pass2"
  /\ i = 3
  /\ Len(scenes) = 2
  /\ HasTimes(scenes[1]) /\ HasTimes(scenes[2])
  /\ scenes[1].start_time = 0 /\ scenes[1].end_time = 5000
  /\ scenes[2].start_time = 5000 /\ scenes[2].end_time = 5300
  /\ scenes[2].text # <<>>
  /\ Len(final_scenes) = 1
  /\ final_scenes[1].end_time = 5300
  /\ final_scenes[1].text = scenes[1].text \o scenes[2].text

\* C21 as stated: when every proposal's text is exactly the words that start
\* in its own [start, end) range, no word timing appears in the text of two
\* different returned scenes, also for overlapping and for split proposals.
OwnTextProposals ==
  \A k \in 1..Len(scenes) :
    /\ HasTimes(scenes[k])
    /\ IsTextForRange(scenes[k].text, scenes[k].start_time, scenes[k].end_time)

ScenesWithWord(w) ==
  {k \in 1..Len(validated_scenes) : w.text \in Range(validated_scenes[k].text)}

C21_NoWordTwice ==
  Returned /\ OwnTextProposals =>
    \A n \in 1..Len(word_subtitles) :
      Cardinality(ScenesWithWord(word_subtitles[n])) <= 1

\* C30 as stated: for the same word timings, two proposal lists that are
\* permutations of each other and whose proposals have pairwise distinct
\* start_time values give the same returned list, also when a proposal is
\* split.
Orders(n) ==
  {p \in [1..n -> 1..n] : \A j, k \in 1..n : j # k => p[j] # p[k]}

Permuted(ss, p) == [k \in 1..Len(ss) |-> ss[p[k]]]

AllHaveTimes == \A k \in 1..Len(scenes) : HasTimes(scenes[k])

SameForEveryOrder ==
  \A p \in Orders(Len(scenes)) :
    ValidateAndFix(Permuted(scenes, p), word_subtitles) = validated_scenes

C30_ProposalOrderIrrelevant ==
  ( /\ Returned
    /\ AllHaveTimes
    /\ \A j, k \in 1..Len(scenes) :
         j # k => scenes[j].start_time # scenes[k].start_time )
  => SameForEveryOrder

\* C30, amended: the returned list is the same for every order of the
\* proposals when the scenes PASS 1 emits (kept proposals and chunks of split
\* ones) have pairwise distinct start times after rounding to 0.01 s, so that
\* the sort by start_time has no tie to break by position.
C30_OrderIrrelevantWithoutTies ==
  ( /\ Returned
    /\ AllHaveTimes
    /\ \A j, k \in 1..Len(split_scenes) :
         j # k => split_scenes[j].start_time # split_scenes[k].start_time )
  => SameForEveryOrder

\* two proposals given later-first, the later one split, were returned
C30_Witness ==
  /\ Returned
  /\ AllHaveTimes
  /\ Len(scenes) = 2
  /\ scenes[1].start_time > scenes[2].start_time
  /\ scenes[1].end_time - scenes[1].start_time > MAX_DURATION
  /\ Len(split_scenes) = 3
  /\ \A j, k \in 1..Len(split_scenes) :
       j # k => split_scenes[j].start_time # split_scenes[k].start_time
  /\ ValidateAndFix(<<scenes[2], scenes[1]>>, word_subtitles) = validated_scenes

\* C26: segment_script_and_generate_queries always returns a dict with a
\* list under "scenes" and raises nothing: every exception raised in it is
\* caught; the list is empty after a status other than 200, a timeout,
\* content that does not parse, a parsed value without a list under
\* "scenes", and an exception raised in _validate_and_fix_scenes.
ValidationRaises ==
  \E k \in 1..Len(scenes) :
    scenes[k].start_kind = "bad" \/ scenes[k].end_kind = "bad"

C26_AlwaysReturnsAList ==
  /\ pc \in {"raised", "failed"} => ENABLED CallerCatch
  /\ pc = "done" =>
       /\ result.returned
       /\ DOMAIN result.scenes = 1..Len(result.scenes)
       /\ response # "ok" \/ ValidationRaises => result.scenes = <<>>
       /\ response = "ok" /\ ~ValidationRaises => result.scenes = validated_scenes

\* the validation raised on its second proposal, after it had kept the first,
\* and the caller got the empty list
C26_Witness ==
  /\ pc = "done"
  /\ response = "ok"
  /\ ValidationRaises
  /\ split_scenes # <<>>
  /\ result = [returned |-> TRUE, scenes |-> <<>>]

\* ------------------------------------------------------------------------
\* AsyncTaskManager (src/utils/async_utils.py) with the UI thread of App
\* (src/ui/main_window.py) that submits tasks, polls the results and stops it.

MaxTasks == 3

\* A task as submit_task puts it on the queue: whether a callback was given,
\* whether the task function raises, whether the callback raises.
TaskKinds ==
  { [callback |-> TRUE,  raises |-> FALSE, callback_raises |-> FALSE],
    [callback |-> TRUE,  raises |-> TRUE,  callback_raises |-> FALSE],
    [callback |-> TRUE,  raises |-> FALSE, callback_raises |-> TRUE],
    [callback |-> FALSE, raises |-> FALSE, callback_raises |-> FALSE],
    [callback |-> FALSE, raises |-> TRUE,  callback_raises |-> FALSE] }

MkTask(id, kind) ==
  [id |-> id, callback |-> kind.callback, raises |-> kind.raises,
   callback_raises |-> kind.callback_raises]

\* __init__: both queues empty, is_running, the worker thread started;
\* App.__init__ calls _check_tasks once
TaskInit == TasksParked /\ RenderParked /\ FetchParked

\* the validation engine takes no step here
EngineParked ==
  /\ scenes = <<>>
  /\ word_subtitles = <<>>
  /\ pc = "done"
  /\ i = 1
  /\ split_scenes = <<>>
  /\ final_scenes = <<>>
  /\ validated_scenes = <<>>
  /\ result = NoResult
  /\ aliases = {}
  /\ response = "ok"

engineVars == <<scenes, word_subtitles, pc, i, split_scenes, final_scenes,
                validated_scenes, result, aliases, response>>

\* what is outside the task manager and its UI thread
outsideTasks == <<engineVars, renderVars, fetchVars>>

\* submit_task: task_queue.put((task_func, args, kwargs, callback)), from a
\* handler or a callback of the UI thread, also after stop() has returned
submit_task(kind) ==
  /\ ui_pc \in {"idle", "checking", "closed"}
  /\ Len(submitted) < MaxTasks
  /\ LET task == MkTask(Len(submitted) + 1, kind)
     IN /\ task_queue' = Append(task_queue, task)
        /\ submitted' = Append(submitted, task)
  /\ UNCHANGED <<outsideTasks, result_queue, is_running, worker_pc, worker_task, ui_pc,
                 polling, started, finished, posted, invoked, stop_returned, in_flight_at_stop>>

Submit == \E kind \in TaskKinds : submit_task(kind)

\* line 14: while self.is_running
WorkerTest ==
  /\ worker_pc = "test"
  /\ worker_pc' = IF is_running THEN "get" ELSE "exited"
  /\ UNCHANGED <<outsideTasks, task_queue, result_queue, is_running, worker_task, ui_pc,
                 polling, submitted, started, finished, posted, invoked,
                 stop_returned, in_flight_at_stop>>

\* Variant of the queue: the newest element is taken
NextTask_Newest(q) == Len(q)

\* the element task_queue.get takes: the oldest
NextTask(q) == 1

\* line 16: task_queue.get(timeout=1) returns a task; line 18 calls it
WorkerGet ==
  /\ worker_pc = "get"
  /\ task_queue # <<>>
  /\ LET n == NextTask(task_queue)
     IN /\ worker_task' = task_queue[n]
        /\ task_queue' = SubSeq(task_queue, 1, n - 1)
                           \o SubSeq(task_queue, n + 1, Len(task_queue))
        /\ started' = Append(started, task_queue[n].id)
  /\ worker_pc' = "run"
  /\ UNCHANGED <<outsideTasks, result_queue, is_running, ui_pc, polling, submitted,
                 finished, posted, invoked, stop_returned, in_flight_at_stop>>

\* lines 16, 26-27: the queue stayed empty for a second, queue.Empty, continue
WorkerTimeout ==
  /\ worker_pc = "get"
  /\ task_queue = <<>>
  /\ worker_pc' = "test"
  /\ UNCHANGED <<outsideTasks, task_queue, result_queue, is_running, worker_task, ui_pc,
                 polling, submitted, started, finished, posted, invoked,
                 stop_returned, in_flight_at_stop>>

\* Variant of the worker: nothing is posted for a task that raised
ResultEntries_OnlyResults(task) ==
  IF task.callback /\ ~task.raises
    THEN <<[id |-> task.id, error |-> FALSE]>>
    ELSE <<>>

\* lines 19-23: what the worker puts on result_queue for a finished task
ResultEntries(task) ==
  IF task.callback
    THEN <<[id |-> task.id, error |-> task.raises]>>
    ELSE <<>>

\* lines 18-25: the task function returns or raises, the entry is posted,
\* task_done, back to the loop test
WorkerFinish ==
  /\ worker_pc = "run"
  /\ result_queue' = result_queue \o ResultEntries(worker_task)
  /\ posted' = posted \o ResultEntries(worker_task)
  /\ finished' = finished \cup {worker_task.id}
  /\ worker_task' = NoTask
  /\ worker_pc' = "test"
  /\ UNCHANGED <<outsideTasks, task_queue, is_running, ui_pc, polling, submitted, started,
                 invoked, stop_returned, in_flight_at_stop>>

\* main_window.py line 617: the timer fires, _check_tasks calls check_results
PollFire ==
  /\ ui_pc = "idle"
  /\ polling
  /\ ui_pc' = "checking"
  /\ polling' = FALSE
  /\ UNCHANGED <<outsideTasks, task_queue, result_queue, is_running, worker_pc, worker_task,
                 submitted, started, finished, posted, invoked, stop_returned, in_flight_at_stop>>

TaskOf(id) == submitted[id]

\* lines 41-44: one entry is taken and its callback called; a callback that
\* raises ends check_results and _check_tasks before self.after is reached
CheckOne ==
  /\ ui_pc = "checking"
  /\ result_queue # <<>>
  /\ result_queue' = Tail(result_queue)
  /\ invoked' = Append(invoked, Head(result_queue))
  /\ ui_pc' = IF TaskOf(Head(result_queue).id).callback_raises
                THEN "idle" ELSE "checking"
  /\ UNCHANGED <<outsideTasks, task_queue, is_running, worker_pc, worker_task, polling,
                 submitted, started, finished, posted, stop_returned, in_flight_at_stop>>

\* line 41 finds the queue empty; main_window.py line 619: self.after(100, ...)
CheckReturn ==
  /\ ui_pc = "checking"
  /\ result_queue = <<>>
  /\ ui_pc' = "idle"
  /\ polling' = TRUE
  /\ UNCHANGED <<outsideTasks, task_queue, result_queue, is_running, worker_pc, worker_task,
                 submitted, started, finished, posted, invoked, stop_returned, in_flight_at_stop>>

\* main_window.py line 739 and async_utils.py lines 47-49: is_running = False,
\* then join() if the worker is alive
Stop ==
  /\ ui_pc = "idle"
  /\ is_running' = FALSE
  /\ ui_pc' = "joining"
  /\ in_flight_at_stop' = IF worker_pc = "run" THEN worker_task.id ELSE 0
  /\ UNCHANGED <<outsideTasks, task_queue, result_queue, worker_pc, worker_task, polling,
                 submitted, started, finished, posted, invoked, stop_returned>>

\* Variant of stop(): it returns without waiting for the worker thread
StopReturn_NoJoin ==
  /\ ui_pc = "joining"
  /\ ui_pc' = "closed"
  /\ stop_returned' = TRUE
  /\ polling' = FALSE
  /\ UNCHANGED <<outsideTasks, task_queue, result_queue, is_running, worker_pc, worker_task,
                 submitted, started, finished, posted, invoked, in_flight_at_stop>>

\* line 49: join() returns once the worker thread has ended; on_closing then
\* destroys the window and its timers
StopReturn ==
  /\ ui_pc = "joining"
  /\ worker_pc = "exited"
  /\ ui_pc' = "closed"
  /\ stop_returned' = TRUE
  /\ polling' = FALSE
  /\ UNCHANGED <<outsideTasks, task_queue, result_queue, is_running, worker_pc, worker_task,
                 submitted, started, finished, posted, invoked, in_flight_at_stop>>

TaskNext ==
  \/ Submit
  \/ WorkerTest
  \/ WorkerGet
  \/ WorkerTimeout
  \/ WorkerFinish
  \/ PollFire
  \/ CheckOne
  \/ CheckReturn
  \/ Stop
  \/ StopReturn

\* the task manager as constructed, everything else at rest
TaskStart == TaskInit /\ EngineParked

TaskSpec == TaskStart /\ [][TaskNext]_vars

\* C22: tasks run on one worker, one at a time, in submission order: at most
\* one task function is executing at any moment, and a task starts only after
\* every task submitted before it has returned or raised.
Executing == Range(started) \ finished

C22_OneAtATimeInOrder ==
  /\ Cardinality(Executing) <= 1
  /\ \A k \in 1..Len(started) : started[k] = submitted[k].id
  /\ \A id \in Range(started) : \A earlier \in 1..(id - 1) : earlier \in finished

\* the third task is executing after the first, which raised, and the second
C22_Witness ==
  /\ worker_pc = "run"
  /\ worker_task.id = 3
  /\ finished = {1, 2}
  /\ submitted[1].raises

\* C23: for every executed task that was submitted with a callback the worker
\* posts exactly one entry, without error if the task returned and with the
\* exception if it raised; check_results calls the callback exactly once, with
\* that entry; a task that raises does not end the worker.
EntriesOf(id, entries) == {k \in 1..Len(entries) : entries[k].id = id}

C23_OneResultOneCallback ==
  /\ \A id \in finished :
       IF submitted[id].callback
         THEN /\ Cardinality(EntriesOf(id, posted)) = 1
              /\ \A k \in EntriesOf(id, posted) :
                   posted[k].error = submitted[id].raises
         ELSE EntriesOf(id, posted) = {}
  /\ \A k \in 1..Len(posted) : posted[k].id \in finished
  /\ posted = invoked \o result_queue
  /\ worker_pc = "exited" => ~is_running

\* the callback of a task that raised was called with the error, and a task
\* submitted after it has run
C23_Witness ==
  \E id \in finished :
    /\ submitted[id].raises
    /\ [id |-> id, error |-> TRUE] \in Range(invoked)
    /\ \E later \in finished : later > id

\* C29: stop() returns only after the worker thread has ended; a task that
\* was executing when stop() was called runs to completion first; once stop()
\* has returned no task is executing and none starts, also with tasks left in
\* the queue or submitted afterwards.
C29_StopEndsWorker ==
  stop_returned =>
    /\ worker_pc = "exited"
    /\ Executing = {}
    /\ in_flight_at_stop # 0 =>
         /\ in_flight_at_stop \in finished
         /\ submitted[in_flight_at_stop].callback =>
              EntriesOf(in_flight_at_stop, posted) # {}

\* stop() returned after the task in flight had finished; a task submitted
\* before and one submitted after stop() stay in the queue
C29_Witness ==
  /\ stop_returned
  /\ in_flight_at_stop = 1
  /\ Len(task_queue) = 2
  /\ Len(started) = 1

\* The task manager while stop() is never called: the worker thread keeps
\* running, every task function ends, and the Tk main loop runs every pending
\* timer and finishes every callback it has started.
TaskNextNoStop ==
  \/ Submit
  \/ WorkerTest
  \/ WorkerGet
  \/ WorkerTimeout
  \/ WorkerFinish
  \/ PollFire
  \/ CheckOne
  \/ CheckReturn

FairTaskSpec ==
  /\ TaskStart
  /\ [][TaskNextNoStop]_vars
  /\ WF_vars(WorkerTest) /\ WF_vars(WorkerGet) /\ WF_vars(WorkerTimeout)
  /\ WF_vars(WorkerFinish)
  /\ WF_vars(PollFire) /\ WF_vars(CheckOne) /\ WF_vars(CheckReturn)

\* C28 as stated: while stop() is never called and every task function ends,
\* every task submitted with a callback is eventually completed and its
\* callback eventually called, also after an earlier callback raised inside
\* check_results.
CallbackCalled(id) == \E k \in 1..Len(invoked) : invoked[k].id = id

C28_EveryCallbackEventuallyCalled ==
  \A id \in 1..MaxTasks :
    (Len(submitted) >= id /\ submitted[id].callback)
      ~> (id \in finished /\ CallbackCalled(id))

\* ------------------------------------------------------------------------
\* VideoService.combine_scenes (src/services/video_service.py), run on the
\* worker thread, with stop_generation called from another thread.

MaxRenderScenes == 3
MaxRuns == 2

outsideRender == <<engineVars, taskVars, fetchVars>>

\* __init__ (lines 45-47): temp_clips = [], the event not set; a list of
\* scenes is at hand
RenderInit ==
  /\ stop_event = FALSE
  /\ render_pc = "idle"
  /\ n_scenes \in 0..MaxRenderScenes
  /\ render_k = 1
  /\ scene_clips = <<>>
  /\ temp_clips = <<>>
  /\ closed_clips = {}
  /\ stop_before = 0
  /\ runs = 0

\* the iteration that has not begun yet at this position of the run
NextIteration ==
  CASE render_pc = "early" -> 1
    [] render_pc = "loop" -> render_k
    [] render_pc = "clip" -> render_k + 1
    [] OTHER -> 0

\* lines 49-52: stop_generation sets the event, at any time
stop_generation ==
  /\ ~stop_event
  /\ stop_event' = TRUE
  /\ stop_before' = NextIteration
  /\ UNCHANGED <<outsideRender, render_pc, n_scenes, render_k, scene_clips,
                 temp_clips, closed_clips, runs>>

\* lines 420-422: combine_scenes is called and resets the stop flag
BeginRun ==
  /\ render_pc = "idle"
  /\ runs < MaxRuns
  /\ runs' = runs + 1
  /\ stop_event' = FALSE
  /\ stop_before' = 0
  /\ render_k' = 1
  /\ scene_clips' = <<>>
  /\ closed_clips' = {}
  /\ render_pc' = "early"
  /\ UNCHANGED <<outsideRender, n_scenes, temp_clips>>

\* Variant of the checks: the flag is never seen
is_set_Never(event) == FALSE

\* self.stop_event.is_set()
is_set(event) == event

\* lines 433-445: early check, then audio and background
EarlyCheck ==
  /\ render_pc = "early"
  /\ render_pc' = IF is_set(stop_event) THEN "failing" ELSE "loop"
  /\ UNCHANGED <<outsideRender, stop_event, n_scenes, render_k, scene_clips,
                 temp_clips, closed_clips, stop_before, runs>>

\* line 437: AudioFileClip(audio_path) raises
AudioFails ==
  /\ render_pc = "early"
  /\ ~is_set(stop_event)
  /\ render_pc' = "failing"
  /\ UNCHANGED <<outsideRender, stop_event, n_scenes, render_k, scene_clips,
                 temp_clips, closed_clips, stop_before, runs>>

\* lines 449-450: the check that opens the iteration of scene render_k
IterationCheck ==
  /\ render_pc = "loop"
  /\ render_k <= n_scenes
  /\ render_pc' = IF is_set(stop_event) THEN "failing" ELSE "clip"
  /\ UNCHANGED <<outsideRender, stop_event, n_scenes, render_k, scene_clips,
                 temp_clips, closed_clips, stop_before, runs>>

\* lines 453-466 and 352: the clip of the scene is created, registered in
\* temp_clips and appended to scene_clips
CreateClip ==
  /\ render_pc = "clip"
  /\ temp_clips' = Append(temp_clips, render_k)
  /\ scene_clips' = Append(scene_clips, render_k)
  /\ render_k' = render_k + 1
  /\ render_pc' = "loop"
  /\ UNCHANGED <<outsideRender, stop_event, n_scenes, closed_clips,
                 stop_before, runs>>

\* lines 453 and 354-357: create_scene_clip raises
CreateClipFails ==
  /\ render_pc = "clip"
  /\ render_pc' = "failing"
  /\ UNCHANGED <<outsideRender, stop_event, n_scenes, render_k, scene_clips,
                 temp_clips, closed_clips, stop_before, runs>>

\* lines 468-471: after the loop, no clip or the flag set: raise
LoopEnd ==
  /\ render_pc = "loop"
  /\ render_k > n_scenes
  /\ render_pc' = IF scene_clips = <<>> \/ is_set(stop_event)
                    THEN "failing" ELSE "export"
  /\ UNCHANGED <<outsideRender, stop_event, n_scenes, render_k, scene_clips,
                 temp_clips, closed_clips, stop_before, runs>>

\* lines 488-498 and 29-31: write_videofile reports progress to the logger,
\* which raises when the flag is set
ExportCancelled ==
  /\ render_pc = "export"
  /\ is_set(stop_event)
  /\ render_pc' = "failing"
  /\ UNCHANGED <<outsideRender, stop_event, n_scenes, render_k, scene_clips,
                 temp_clips, closed_clips, stop_before, runs>>

\* lines 490-508: the file is written, the clips closed, the path returned
ExportDone ==
  /\ render_pc = "export"
  /\ closed_clips' = closed_clips \cup Range(temp_clips)
  /\ temp_clips' = <<>>
  /\ render_pc' = "returned"
  /\ UNCHANGED <<outsideRender, stop_event, n_scenes, render_k, scene_clips,
                 stop_before, runs>>

\* the list self.temp_clips is after the handler's cleanup
AfterCleanup(clips) == <<>>

\* lines 510-517: every clip of temp_clips is closed, the list emptied, and
\* "Video Generation Failed" raised
RunFails ==
  /\ render_pc = "failing"
  /\ closed_clips' = closed_clips \cup Range(temp_clips)
  /\ temp_clips' = AfterCleanup(temp_clips)
  /\ render_pc' = "failed"
  /\ UNCHANGED <<outsideRender, stop_event, n_scenes, render_k, scene_clips,
                 stop_before, runs>>

\* main_window.py lines 669-677: the user starts the generation again
RunAgain ==
  /\ render_pc \in {"returned", "failed"}
  /\ runs < MaxRuns
  /\ render_pc' = "idle"
  /\ UNCHANGED <<outsideRender, stop_event, n_scenes, render_k, scene_clips,
                 temp_clips, closed_clips, stop_before, runs>>

RenderNext ==
  \/ stop_generation
  \/ BeginRun
  \/ EarlyCheck
  \/ AudioFails
  \/ IterationCheck
  \/ CreateClip
  \/ CreateClipFails
  \/ LoopEnd
  \/ ExportCancelled
  \/ ExportDone
  \/ RunFails
  \/ RunAgain

\* the video service as constructed, everything else at rest
RenderStart == RenderInit /\ EngineParked /\ TasksParked /\ FetchParked

RenderSpec == RenderStart /\ [][RenderNext]_vars

\* C24: when stop_generation sets the flag during a run of combine_scenes
\* before the loop iteration of some scene begins, no clip is created for
\* that scene or a later one, the run raises instead of returning a path, and
\* temp_clips is closed and emptied.
StoppedBeforeAScene == stop_before \in 1..n_scenes

C24_StopBetweenScenes ==
  StoppedBeforeAScene =>
    /\ \A c \in Range(scene_clips) \cup Range(temp_clips) \cup closed_clips :
         c < stop_before
    /\ render_pc \notin {"export", "returned"}
    /\ render_pc \in {"failed", "idle"} =>
         /\ temp_clips = <<>>
         /\ Range(scene_clips) \subseteq closed_clips

\* the flag was set while the clip of scene 1 was being created: the run
\* raised before scene 2 of 3, with the clip of scene 1 closed
C24_Witness ==
  /\ render_pc = "failed"
  /\ n_scenes = 3
  /\ stop_before = 2
  /\ scene_clips = <<1>>
  /\ closed_clips = {1}
  /\ temp_clips = <<>>

\* ------------------------------------------------------------------------
\* App._fetch_all_media / _fetch_single_scene_media on the worker thread, with
\* the upload and Fetch/Retry buttons of the scene rows and the closing of the
\* window on the UI thread (src/ui/main_window.py).

MaxFetchScenes == 2
MaxRetries == 1

outsideFetch == <<engineVars, taskVars, renderVars>>

\* the tasks submitted: _fetch_all_media (line 518) and _fetch_single_scene_task
\* for one scene (line 599)
FetchAllTask == [all |-> TRUE, scene |-> 1]
FetchSingleTask(k) == [all |-> FALSE, scene |-> k]

\* media sources the LLM gives a scene
FetchSources == {"pexels", "pollinations"}

\* lines 505-521 (_on_scenes_generated): media_url and media_path of every
\* scene are None, the rows are rendered, _fetch_all_media is submitted
FetchInit ==
  /\ \E n \in 1..MaxFetchScenes :
       fetch_scenes \in
         [1..n -> [media_path : {"none"}, media_url : {"none"},
                   media_source : FetchSources, menu : FetchSources]]
  /\ \A k \in DOMAIN fetch_scenes :
       fetch_scenes[k].menu = fetch_scenes[k].media_source
  /\ fetch_queue = <<FetchAllTask>>
  /\ fetch_pc = "wait"
  /\ fetch_all = FALSE
  /\ fetch_k = 1
  /\ fetch_source = "none"
  /\ cancel_requested = FALSE
  /\ retries = 0
  /\ manual = {}
  /\ fetched_after_cancel = {}

\* lines 72-90 (_on_manual_upload): the user picked a file for scene k
ManualUpload(k) ==
  /\ ~cancel_requested
  /\ fetch_scenes' = [fetch_scenes EXCEPT ![k].media_path = "upload",
                                          ![k].media_url = "none",
                                          ![k].media_source = "manual"]
  /\ manual' = manual \cup {k}
  /\ UNCHANGED <<outsideFetch, fetch_queue, fetch_pc, fetch_all, fetch_k,
                 fetch_source, cancel_requested, retries, fetched_after_cancel>>

Upload == \E k \in DOMAIN fetch_scenes : ManualUpload(k)

\* lines 92-104 and 594-603 (_on_retry_click, _retry_single_scene): the source
\* of the option menu is written to the scene, a single fetch is submitted
RetryClick(k) ==
  /\ ~cancel_requested
  /\ retries < MaxRetries
  /\ retries' = retries + 1
  /\ fetch_scenes' = [fetch_scenes EXCEPT ![k].media_source = fetch_scenes[k].menu]
  /\ fetch_queue' = Append(fetch_queue, FetchSingleTask(k))
  /\ manual' = manual \ {k}
  /\ UNCHANGED <<outsideFetch, fetch_pc, fetch_all, fetch_k, fetch_source,
                 cancel_requested, fetched_after_cancel>>

Retry == \E k \in DOMAIN fetch_scenes : RetryClick(k)

\* lines 738-739 (on_closing): task_manager.stop(), the only cancellation the
\* window offers; the UI thread waits for the worker from here on
RequestCancel ==
  /\ ~cancel_requested
  /\ cancel_requested' = TRUE
  /\ UNCHANGED <<outsideFetch, fetch_scenes, fetch_queue, fetch_pc, fetch_all,
                 fetch_k, fetch_source, retries, manual, fetched_after_cancel>>

\* async_utils.py lines 14-18: the worker takes the next fetch task
WorkerTakesFetch ==
  /\ fetch_pc = "wait"
  /\ ~cancel_requested
  /\ fetch_queue # <<>>
  /\ fetch_queue' = Tail(fetch_queue)
  /\ fetch_all' = Head(fetch_queue).all
  /\ fetch_k' = Head(fetch_queue).scene
  /\ fetch_pc' = IF Head(fetch_queue).all THEN "loop" ELSE "single"
  /\ UNCHANGED <<outsideFetch, fetch_scenes, fetch_source, cancel_requested,
                 retries, manual, fetched_after_cancel>>

\* whether the loop of _fetch_all_media goes on to the next scene: it tests
\* nothing but the end of the list (lines 536-537)
LoopGoesOn(cancelled) == TRUE

\* lines 536-539: for i, scene in enumerate(self.scenes), return self.scenes
FetchAllReturns ==
  /\ fetch_pc = "loop"
  /\ fetch_k > Len(fetch_scenes) \/ ~LoopGoesOn(cancel_requested)
  /\ fetch_pc' = "wait"
  /\ UNCHANGED <<outsideFetch, fetch_scenes, fetch_queue, fetch_all, fetch_k,
                 fetch_source, cancel_requested, retries, manual,
                 fetched_after_cancel>>

\* the fields of a scene after lines 549-550
ResetFields(scene) == [scene EXCEPT !.media_url = "none", !.media_path = "none"]

\* lines 543-550: _fetch_single_scene_media reads the source of the scene and
\* resets its media_url and media_path
FetchReset ==
  /\ \/ /\ fetch_pc = "loop"
        /\ fetch_k <= Len(fetch_scenes)
        /\ LoopGoesOn(cancel_requested)
     \/ fetch_pc = "single"
  /\ fetch_source' = fetch_scenes[fetch_k].media_source
  /\ fetch_scenes' = [fetch_scenes EXCEPT ![fetch_k] = ResetFields(fetch_scenes[fetch_k])]
  /\ fetched_after_cancel' =
       IF fetch_all /\ cancel_requested
         THEN fetched_after_cancel \cup {fetch_k}
         ELSE fetched_after_cancel
  /\ fetch_pc' = "fetching"
  /\ UNCHANGED <<outsideFetch, fetch_queue, fetch_all, fetch_k,
                 cancel_requested, retries, manual>>

\* lines 552-566: what the branch of `source` writes to the scene
Fetched(scene, source, found) ==
  CASE source = "pexels" ->
         [scene EXCEPT !.media_url = IF found THEN "url" ELSE "none"]
    [] source = "pollinations" /\ found ->
         [scene EXCEPT !.media_path = "generated"]
    [] OTHER -> scene

\* lines 552-568: the search or generation ends, with a result or without
\* (None, or an exception caught at 567), and the loop moves on
FetchResolve ==
  /\ fetch_pc = "fetching"
  /\ \E found \in BOOLEAN :
       fetch_scenes' = [fetch_scenes EXCEPT
                          ![fetch_k] = Fetched(fetch_scenes[fetch_k], fetch_source, found)]
  /\ fetch_k' = IF fetch_all THEN fetch_k + 1 ELSE fetch_k
  /\ fetch_pc' = IF fetch_all THEN "loop" ELSE "wait"
  /\ UNCHANGED <<outsideFetch, fetch_queue, fetch_all, fetch_source,
                 cancel_requested, retries, manual, fetched_after_cancel>>

FetchNext ==
  \/ Upload
  \/ Retry
  \/ RequestCancel
  \/ WorkerTakesFetch
  \/ FetchAllReturns
  \/ FetchReset
  \/ FetchResolve

\* the scenes as _on_scenes_generated leaves them, everything else at rest
FetchStart == FetchInit /\ EngineParked /\ TasksParked /\ RenderParked

FetchSpec == FetchStart /\ [][FetchNext]_vars

\* C25 as stated: once cancellation was requested while _fetch_all_media is
\* iterating over the scenes, media is fetched for no further scene.
C25_NoFetchAfterCancel == fetched_after_cancel = {}

\* C27 as stated: once the user has uploaded a file for a scene, its
\* media_path stays the uploaded file until the user clicks Fetch/Retry for
\* that scene, whatever a queued or running _fetch_all_media does.
C27_ManualMediaKept ==
  \A k \in manual : fetch_scenes[k].media_path = "upload"

====
